---- MODULE Spec2Model ----
(***************************************************************************)
(* franklin-api: registration and deregistration of a GitHub repository    *)
(* (github/views.py: repository_list, repository_detail), the webhook      *)
(* receiver (deploy_hook), the Site record (builder/models.py) and the      *)
(* user's repository list (users/models.py).                               *)
(*                                                                         *)
(* A request is served in the steps of its view function; the steps of two *)
(* requests interleave (no transaction and no lock spans a view).          *)
(***************************************************************************)
EXTENDS Integers, Sequences, FiniteSets, TLC

\* ------------------------------------------------------------------ bounds
\* Number of requests the model starts in one behaviour.
MaxRequests == 3

\* Worker slots: the requests that can be in flight at the same time.
Slots == {1, 2}

\* ---------------------------------------------------------- the environment
\* u1 has two repositories on GitHub, u2 has none
Users == {"u1", "u2"}

\* github ids of the repositories of the external platform
Repos == {1, 2}

RepoName(r) == IF r = 1 THEN "blog" ELSE "docs"

\* value of os.environ['BASE_PROJECT_PATH']
BASE_PROJECT_PATH == "/srv/sites"

\* the path values a client can put in the request data ("" : none given)
ClientPaths == {"", "/etc/cron.d"}

\* What GET user/repos answers for each user: a chain of pages, each with the
\* repositories it lists and the page its 'next' link names (0: no link).
GithubPages ==
    [u \in Users |->
        CASE u = "u1" -> << [repos |-> <<1>>, next |-> 2],
                            [repos |-> <<2>>, next |-> 0] >>
          [] OTHER    -> << [repos |-> <<>>,  next |-> 0] >>]

\* the values os.environ['ENV'] can have where a request is served
EnvValues == {"production", "test"}

\* A delivery to deploy_hook: the authenticity marker of the request, the
\* X-GitHub-Event header ("none": absent), whether the payload parses, the
\* repository id of the payload and whether the event is one the site deploys
\* (its branch is a deployed one). Only the first attribute that decides the
\* handling varies; create, which the view handles as it does push, comes in
\* one delivery, and so does an event for the second repository.
HookDeliveries ==
    { d \in [auth : {"valid", "invalid"},
             event_type : {"none", "push", "create", "ping", "issues"},
             payload_ok : BOOLEAN, pk : Repos, buildable : BOOLEAN] :
        /\ d.auth # "valid" => d.event_type = "push" /\ d.payload_ok
        /\ d.event_type \in {"none", "issues"} => d.payload_ok
        /\ (d.event_type \notin {"push", "create"} \/ ~d.payload_ok)
              => d.pk = 1 /\ d.buildable
        /\ d.event_type = "create" => d.pk = 1 /\ d.payload_ok /\ d.buildable
        /\ d.pk # 1 => d.buildable }

\* ------------------------------------------------------------- status codes
HTTP_200_OK == 200
HTTP_201_CREATED == 201
HTTP_204_NO_CONTENT == 204
HTTP_400_BAD_REQUEST == 400
HTTP_403_FORBIDDEN == 403
HTTP_404_NOT_FOUND == 404
\* GitHub's answer to a create call for a resource that is already there
HTTP_422_UNPROCESSABLE_ENTITY == 422
\* GitHub's answer when a call fails for another reason, and the framework's
\* answer when the view raises
HTTP_500_INTERNAL_SERVER_ERROR == 500

\* is_success as it would be if every status counted as success.
is_success_any(code) == TRUE

\* rest_framework.status.is_success
is_success(code) == code >= 200 /\ code <= 299

\* -------------------------------------------------------------------- state
VARIABLES
    sites,      \* the Site table: a set of records
    hooks,      \* github ids of the repositories that have the webhook
    keys,       \* github ids of the repositories that have the deploy key
    links,      \* user -> ids of the Site rows linked to the user (details.sites)
    req,        \* slot -> the request it serves, with the view's local variables
    started,    \* number of requests started so far
    deregistered, \* history: the records DELETE removed, each with the
                \* number of requests that had started by then
    pager       \* one run of get_user_repos followed step by step: its local
                \* variables and the number of GET calls it has made

vars == <<sites, hooks, keys, links, req, started, deregistered, pager>>

Range(s) == {s[i] : i \in DOMAIN s}

IdleRequest ==
    [view |-> "none", method |-> "none", user |-> "none", pk |-> 0,
     data_ok |-> TRUE, data_path |-> "", pc |-> "idle", site |-> 0,
     webhook_response |-> 0, deploy_key_response |-> 0,
     auth |-> "valid", event_type |-> "none", payload_ok |-> TRUE,
     buildable |-> FALSE, looked_up |-> FALSE, ENV |-> "none", builds |-> 0,
     resp |-> 0, raised |-> "none", serial |-> 0, overlapped |-> {}]

\* no run of get_user_repos is followed
IdlePager ==
    [pc |-> "idle", pages |-> <<>>, url |-> 0, have_next_page |-> FALSE,
     repos |-> <<>>, calls |-> 0, raised |-> "none", returned |-> <<>>]

InFlight(p) == req[p].pc \notin {"idle", "done"}

\* The view returns Response(status=code).
Respond(q, code) ==
    req' = [req EXCEPT ![q].pc = "done", ![q].resp = code]

\* The view raises; the framework answers 500.
Raise(q, exc) ==
    req' = [req EXCEPT ![q].pc = "done", ![q].resp = HTTP_500_INTERNAL_SERVER_ERROR,
                       ![q].raised = exc]

Init ==
    /\ sites = {}
    /\ hooks = {}
    /\ keys = {}
    /\ links = [u \in Users |-> {}]
    /\ req = [q \in Slots |-> IdleRequest]
    /\ started = 0
    /\ deregistered = {}
    /\ pager = IdlePager

\* ------------------------------------------------------------ builder.Site
\* Site.save as it would be if a path given by the client were kept.
Site_save_keeps_given_path(s) ==
    IF s.path = ""
    THEN [s EXCEPT !.path = BASE_PROJECT_PATH \o "/" \o s.repo_name]
    ELSE s

\* Site.save: the path is recomputed from the base path and the repo name.
Site_save(s) ==
    [s EXCEPT !.path = BASE_PROJECT_PATH \o "/" \o s.repo_name]

\* site.delete() as it would be if the row were left in the table.
site_delete_keeps_row(sid) == sites

\* site.delete(): the row goes.
site_delete(sid) == {s \in sites : s.id # sid}

\* ------------------------------------------------------- users.UserDetails
RECURSIVE FetchPages(_, _, _)
\* the while loop of get_user_repos: one GET per page, the page's repos
\* appended, the 'next' link followed while there is one
FetchPages(u, url, repos) ==
    LET response == GithubPages[u][url]
        acc == repos \o response.repos
    IN  IF response.next # 0 THEN FetchPages(u, response.next, acc) ELSE acc

\* get_user_repos: the list, or the NameError of the `if not repos` branch
\* (it reads `user`, a name the method does not have)
get_user_repos(u) ==
    LET repos == FetchPages(u, 1, <<>>)
    IN  [raised |-> IF repos = <<>> THEN "NameError" ELSE "none",
         repos |-> repos]

\* ---- get_user_repos step by step, over every chain of pages up to a bound
\* the longest chain of pages
MaxPages == 3

\* what one page of GitHub's answer can list
PageContents == {<<>>, <<1>>, <<2>>, <<2, 1>>}

\* every chain of 1..MaxPages pages; each page but the last carries the 'next'
\* link to the page after it
PageChains ==
    { [i \in 1..n |-> [repos |-> c[i], next |-> IF i < n THEN i + 1 ELSE 0]] :
        n \in 1..MaxPages, c \in [1..MaxPages -> PageContents] }

\* get_user_repos up to the loop: the first url, the empty list
PagesInit ==
    /\ sites = {}
    /\ hooks = {}
    /\ keys = {}
    /\ links = [u \in Users |-> {}]
    /\ req = [q \in Slots |-> IdleRequest]
    /\ started = 0
    /\ deregistered = {}
    /\ \E pages \in PageChains :
          pager = [pc |-> "loop", pages |-> pages, url |-> 1,
                   have_next_page |-> TRUE, repos |-> <<>>, calls |-> 0,
                   raised |-> "none", returned |-> <<>>]

\* one turn of the while loop: the GET of the current url, the repos of the
\* response appended, the 'next' link taken if the response has one
GUR_Page ==
    /\ pager.pc = "loop"
    /\ pager.have_next_page
    /\ LET response == pager.pages[pager.url]
       IN  pager' = [pager EXCEPT
                       !.calls = @ + 1,
                       !.repos = @ \o response.repos,
                       !.url = IF response.next # 0 THEN response.next ELSE @,
                       !.have_next_page = response.next # 0]
    /\ UNCHANGED <<sites, hooks, keys, links, req, started, deregistered>>

\* after the loop: `if not repos` reads the unbound name `user` and raises
\* NameError; otherwise the list is returned
GUR_Return ==
    /\ pager.pc = "loop"
    /\ ~pager.have_next_page
    /\ IF pager.repos = <<>>
       THEN pager' = [pager EXCEPT !.pc = "done", !.raised = "NameError"]
       ELSE pager' = [pager EXCEPT !.pc = "done", !.returned = pager.repos]
    /\ UNCHANGED <<sites, hooks, keys, links, req, started, deregistered>>

PagesNext == GUR_Page \/ GUR_Return

PagesSpec == PagesInit /\ [][PagesNext]_vars

\* update_repos_for_user: link the user to the registered sites of the list
update_repos_for_user(u, repos) ==
    [links EXCEPT ![u] =
        {s.id : s \in {t \in sites : t.github_id \in Range(repos) /\ t.is_active}}]

\* has_repo_access (Access Control Gate): the cached links decide; an empty
\* cache is refreshed once from the platform; never raises, a failed refresh
\* denies.
has_repo_access(u, sid) ==
    IF links[u] # {}
    THEN [allowed |-> sid \in links[u], links |-> links]
    ELSE LET r == get_user_repos(u)
         IN  IF r.raised # "none"
             THEN [allowed |-> FALSE, links |-> links]
             ELSE LET new == update_repos_for_user(u, r.repos)
                  IN  [allowed |-> sid \in new[u], links |-> new]

\* ------------------------------------------------------------- the registry
\* SiteSerializer.is_valid: the data is well formed and no active record has
\* the github id
SiteSerializer_is_valid(data_ok, pk) ==
    /\ data_ok
    /\ ~ \E s \in sites : s.github_id = pk /\ s.is_active

\* The insert of a registry without the uniqueness constraint.
RegistryRejects_nothing(pk) == FALSE

\* The insert of the registry: the uniqueness constraint on the github id
\* rejects a second record.
RegistryRejects(pk) == \E s \in sites : s.github_id = pk

\* ------------------------------------------------------ the external platform
\* The statuses GitHub can answer to a create call for repository r, given
\* the repositories that have the resource already.
GithubCreateStatuses(existing, r) ==
    IF r \in existing
    THEN {HTTP_422_UNPROCESSABLE_ENTITY, HTTP_500_INTERNAL_SERVER_ERROR}
    ELSE {HTTP_201_CREATED, HTTP_500_INTERNAL_SERVER_ERROR}

\* ----------------------------------------------------------------- requests
Endpoints ==
    { <<"repository_list", "GET">>, <<"repository_list", "POST">>,
      <<"repository_detail", "GET">>, <<"repository_detail", "DELETE">> }

FirstStep(e) ==
    CASE e = <<"repository_list", "GET">>  -> "list_get"
      [] e = <<"repository_list", "POST">> -> "validate"
      [] OTHER                             -> "lookup"

\* A request arrives and the first free worker takes it. A POST carries data
\* (well formed or not, with or without a path); the list view has no pk, and
\* data that is not well formed has no use for one: such a request carries
\* the first repository's id.
StartRequest(q) ==
    /\ UNCHANGED pager
    /\ ~InFlight(q)
    /\ \A p \in Slots : ~InFlight(p) => ~(p < q)
    /\ started < MaxRequests
    /\ \E e \in Endpoints, u \in Users, r \in Repos, ok \in BOOLEAN, path \in ClientPaths :
          /\ e = <<"repository_list", "GET">> => r = 1
          /\ e # <<"repository_list", "POST">> => ok /\ path = ""
          /\ ~ok => path = "" /\ r = 1
          /\ req' = [req EXCEPT ![q] =
                    [IdleRequest EXCEPT
                        !.view = e[1], !.method = e[2], !.user = u, !.pk = r,
                        !.data_ok = ok, !.data_path = path,
                        !.pc = FirstStep(e), !.serial = started + 1,
                        !.overlapped =
                            {req[p].serial : p \in {x \in Slots \ {q} : InFlight(x)}}]]
    /\ started' = started + 1
    /\ UNCHANGED <<sites, hooks, keys, links, deregistered>>

\* ------------------------------------------- repository_list (GET and POST)
\* GET: an empty link set is refreshed from GitHub, then the sites are listed.
RL_Get(q) ==
    /\ UNCHANGED pager
    /\ req[q].pc = "list_get"
    /\ LET u == req[q].user
           r == get_user_repos(u)
       IN  IF links[u] = {} /\ r.raised # "none"
           THEN /\ Raise(q, r.raised)
                /\ UNCHANGED links
           ELSE /\ links' = IF links[u] = {}
                               THEN update_repos_for_user(u, r.repos)
                               ELSE links
                /\ Respond(q, HTTP_200_OK)
    /\ UNCHANGED <<sites, hooks, keys, started, deregistered>>

\* POST, `serializer.is_valid()`: when it is false the view goes on to the
\* get_franklin_config(site, ...) line with `site` never assigned.
RL_Validate(q) ==
    /\ UNCHANGED pager
    /\ req[q].pc = "validate"
    /\ IF SiteSerializer_is_valid(req[q].data_ok, req[q].pk)
       THEN req' = [req EXCEPT ![q].pc = "save"]
       ELSE Raise(q, "UnboundLocalError")
    /\ UNCHANGED <<sites, hooks, keys, links, started, deregistered>>

\* POST, `site = serializer.save()`: the record is inserted (through
\* Site.save) with the webhook and deploy key ids empty.
RL_Save(q) ==
    /\ UNCHANGED pager
    /\ req[q].pc = "save"
    /\ IF RegistryRejects(req[q].pk)
       THEN /\ Raise(q, "IntegrityError")
            /\ UNCHANGED sites
       ELSE /\ sites' = sites \cup
                  { Site_save([id |-> req[q].serial, github_id |-> req[q].pk,
                               repo_name |-> RepoName(req[q].pk), git_hash |-> "",
                               path |-> req[q].data_path,
                               webhook_id |-> "", deploy_key_id |-> "",
                               is_active |-> TRUE]) }
            /\ req' = [req EXCEPT ![q].pc = "access", ![q].site = req[q].serial]
    /\ UNCHANGED <<hooks, keys, links, started, deregistered>>

\* POST, the has_repo_access check: 403 when it denies.
RL_Access(q) ==
    /\ UNCHANGED pager
    /\ req[q].pc = "access"
    /\ LET g == has_repo_access(req[q].user, req[q].site)
       IN  /\ links' = g.links
           /\ IF g.allowed
              THEN req' = [req EXCEPT ![q].pc = "config"]
              ELSE Respond(q, HTTP_403_FORBIDDEN)
    /\ UNCHANGED <<sites, hooks, keys, started, deregistered>>

\* POST, get_franklin_config: two GETs; the result (a parsed config, or the
\* response of the failed GET) is not used; yaml.load can raise.
RL_Config(q) ==
    /\ UNCHANGED pager
    /\ req[q].pc = "config"
    /\ \E outcome \in {"config", "response", "YAMLError"} :
          IF outcome = "YAMLError"
          THEN Raise(q, "YAMLError")
          ELSE req' = [req EXCEPT ![q].pc = "webhook"]
    /\ UNCHANGED <<sites, hooks, keys, links, started, deregistered>>

\* POST, create_repo_webhook and the test of its status.
RL_Webhook(q) ==
    /\ UNCHANGED pager
    /\ req[q].pc = "webhook"
    /\ \E st \in GithubCreateStatuses(hooks, req[q].pk) :
          /\ hooks' = IF st = HTTP_201_CREATED THEN hooks \cup {req[q].pk} ELSE hooks
          /\ IF is_success(st)
             THEN req' = [req EXCEPT ![q].pc = "deploy_key",
                                     ![q].webhook_response = st]
             ELSE req' = [req EXCEPT ![q].pc = "done", ![q].resp = st,
                                     ![q].webhook_response = st]
    /\ UNCHANGED <<sites, keys, links, started, deregistered>>

\* POST, create_repo_deploy_key and the test of its status; 201 at the end.
RL_DeployKey(q) ==
    /\ UNCHANGED pager
    /\ req[q].pc = "deploy_key"
    /\ \E st \in GithubCreateStatuses(keys, req[q].pk) :
          /\ keys' = IF st = HTTP_201_CREATED THEN keys \cup {req[q].pk} ELSE keys
          /\ req' = [req EXCEPT ![q].pc = "done",
                                ![q].deploy_key_response = st,
                                ![q].resp = IF is_success(st)
                                            THEN HTTP_201_CREATED ELSE st]
    /\ UNCHANGED <<sites, hooks, links, started, deregistered>>

\* ---------------------------------------- repository_detail (GET and DELETE)
\* Site.objects.get(github_id=pk): 404 when there is none.
RD_Lookup(q) ==
    /\ UNCHANGED pager
    /\ req[q].pc = "lookup"
    /\ LET found == {s \in sites : s.github_id = req[q].pk}
       IN  CASE found = {} -> Respond(q, HTTP_404_NOT_FOUND)
             [] Cardinality(found) > 1 -> Raise(q, "MultipleObjectsReturned")
             [] OTHER -> req' = [req EXCEPT ![q].pc = "detail_access",
                                           ![q].site = (CHOOSE s \in found : TRUE).id]
    /\ UNCHANGED <<sites, hooks, keys, links, started, deregistered>>

\* the has_repo_access check: 403 when it denies.
RD_Access(q) ==
    /\ UNCHANGED pager
    /\ req[q].pc = "detail_access"
    /\ LET g == has_repo_access(req[q].user, req[q].site)
       IN  /\ links' = g.links
           /\ IF g.allowed
              THEN req' = [req EXCEPT ![q].pc = "detail_method"]
              ELSE Respond(q, HTTP_403_FORBIDDEN)
    /\ UNCHANGED <<sites, hooks, keys, started, deregistered>>

\* The last step as it would be if the method were not tested and GET
\* deleted too.
RD_Method_get_deletes(q) ==
    /\ UNCHANGED pager
    /\ req[q].pc = "detail_method"
    /\ sites' = site_delete(req[q].site)
    /\ links' = [u \in Users |-> links[u] \ {req[q].site}]
    /\ deregistered' = deregistered \cup
                         {[site |-> req[q].site, pk |-> req[q].pk,
                           at |-> started]}
    /\ Respond(q, HTTP_204_NO_CONTENT)
    /\ UNCHANGED <<hooks, keys, started>>

\* GET answers the record; DELETE is site.delete(): the row and its links go.
RD_Method(q) ==
    /\ UNCHANGED pager
    /\ req[q].pc = "detail_method"
    /\ IF req[q].method = "GET"
       THEN /\ Respond(q, HTTP_200_OK)
            /\ UNCHANGED <<sites, links, deregistered>>
       ELSE /\ sites' = site_delete(req[q].site)
            /\ links' = [u \in Users |-> links[u] \ {req[q].site}]
            /\ deregistered' = deregistered \cup
                                 {[site |-> req[q].site, pk |-> req[q].pk,
                                   at |-> started]}
            /\ Respond(q, HTTP_204_NO_CONTENT)
    /\ UNCHANGED <<hooks, keys, started>>

\* ------------------------------------------------------------- deploy_hook
\* GithubOnly, the permission class of the view: the authenticity marker of
\* the request is present and valid.
GithubOnly(auth) == auth = "valid"

\* GithubWebhookSerializer.is_valid: the payload parses.
GithubWebhookSerializer_is_valid(payload_ok) == payload_ok

\* github_event.get_existing_site(): the id of the active record with the
\* payload's repository id, 0 when there is none.
get_existing_site(pk) ==
    LET found == {s \in sites : s.github_id = pk /\ s.is_active}
    IN  IF found = {} THEN 0 ELSE (CHOOSE s \in found : TRUE).id

\* The head of the view as it would be if the payload were not validated.
EventClass_unvalidated(event_type, payload_ok) ==
    CASE event_type = "none" -> "malformed"
      [] event_type \in {"push", "create"} -> "lookup"
      [] event_type = "ping" -> "ping"
      [] OTHER -> "unhandled"

\* The head of the view as it would be if ping went the way of push.
EventClass_ping_as_push(event_type, payload_ok) ==
    CASE event_type = "none" -> "malformed"
      [] event_type \in {"push", "create", "ping"} ->
            IF GithubWebhookSerializer_is_valid(payload_ok)
            THEN "lookup" ELSE "invalid"
      [] OTHER -> "unhandled"

\* The head of the view: what the event type header and the payload lead to.
\* Only "lookup" goes on to the registry; "ping" answers 204; the others fall
\* through to the 400 at the end of the view.
EventClass(event_type, payload_ok) ==
    CASE event_type = "none" -> "malformed"
      [] event_type \in {"push", "create"} ->
            IF GithubWebhookSerializer_is_valid(payload_ok)
            THEN "lookup" ELSE "invalid"
      [] event_type = "ping" -> "ping"
      [] OTHER -> "unhandled"

\* `os.environ['ENV'] is not 'test'`: an identity test of two strings. It is
\* true when the values differ; when both are 'test' the interpreter decides
\* whether they are one object (same).
env_is_not_test(env, same) == env # "test" \/ ~same

\* The build calls as they would be if the trigger were tried a second time.
build_calls_retried(environment, go) == IF environment /\ go THEN 2 ELSE 0

\* The number of environment.build() calls of the view.
build_calls(environment, go) == IF environment /\ go THEN 1 ELSE 0

\* The answer as it would be if every matched event were answered 201.
hook_status_always_created(environment, go) == HTTP_201_CREATED

\* The answer for a matched event: 201 after the build, 200 for an event the
\* site does not deploy; a deployable event with the build skipped falls
\* through to the 400 at the end of the view.
hook_status(environment, go) ==
    IF environment
    THEN IF go THEN HTTP_201_CREATED ELSE HTTP_400_BAD_REQUEST
    ELSE HTTP_200_OK

\* The view for a delivery `r` that passed the permission check. Only a valid
\* push or create reads the registry, once: site =
\* github_event.get_existing_site(); without a site the view falls through to
\* the 400 at its end. With one: environment =
\* site.get_deployable_event(github_event), the ENV test (the value read is
\* kept when the test is reached), the build and the answer. The set holds the
\* ways the request can end.
deploy_hook_results(r) ==
    LET c == EventClass(r.event_type, r.payload_ok)
        site == get_existing_site(r.pk)
        environment == r.buildable
    IN  CASE c = "lookup" /\ site # 0 ->
                { [r EXCEPT !.pc = "done", !.site = site, !.looked_up = TRUE,
                            !.ENV = IF environment THEN env ELSE "none",
                            !.builds = build_calls(environment,
                                                   env_is_not_test(env, same)),
                            !.resp = hook_status(environment,
                                                 env_is_not_test(env, same))] :
                  env \in EnvValues, same \in BOOLEAN }
          [] c = "lookup" /\ site = 0 ->
                { [r EXCEPT !.pc = "done", !.looked_up = TRUE,
                            !.resp = HTTP_400_BAD_REQUEST] }
          [] c = "ping" ->
                { [r EXCEPT !.pc = "done", !.resp = HTTP_204_NO_CONTENT] }
          [] OTHER ->
                { [r EXCEPT !.pc = "done", !.resp = HTTP_400_BAD_REQUEST] }

\* GitHub (or anyone) posts to the webhook receiver and the first free worker
\* serves the delivery: the permission check, then the view. The view reads
\* the registry at one point and writes nothing, so it is one step.
deploy_hook(q) ==
    /\ UNCHANGED pager
    /\ ~InFlight(q)
    /\ \A p \in Slots : ~InFlight(p) => ~(p < q)
    /\ started < MaxRequests
    /\ \E d \in HookDeliveries :
          LET r == [IdleRequest EXCEPT
                        !.view = "deploy_hook", !.method = "POST", !.pk = d.pk,
                        !.auth = d.auth, !.event_type = d.event_type,
                        !.payload_ok = d.payload_ok, !.buildable = d.buildable,
                        !.serial = started + 1]
          IN  IF GithubOnly(d.auth)
              THEN \E x \in deploy_hook_results(r) :
                      req' = [req EXCEPT ![q] = x]
              ELSE req' = [req EXCEPT ![q] =
                        [r EXCEPT !.pc = "done", !.resp = HTTP_403_FORBIDDEN]]
    /\ started' = started + 1
    /\ UNCHANGED <<sites, hooks, keys, links, deregistered>>

\* ------------------------------------------------------------ specification
Next ==
    \E q \in Slots :
        \/ deploy_hook(q)
        \/ StartRequest(q)
        \/ RL_Get(q)
        \/ RL_Validate(q)
        \/ RL_Save(q)
        \/ RL_Access(q)
        \/ RL_Config(q)
        \/ RL_Webhook(q)
        \/ RL_DeployKey(q)
        \/ RD_Lookup(q)
        \/ RD_Access(q)
        \/ RD_Method(q)

Spec == Init /\ [][Next]_vars

\* ------------------------------------------------------------------ claims
Done(q) == req[q].pc = "done"

IsRegistration(q) ==
    req[q].view = "repository_list" /\ req[q].method = "POST"

IsDeregistration(q) ==
    req[q].view = "repository_detail" /\ req[q].method = "DELETE"

\* the record that request q persisted, if it is still in the table
SiteOf(q) == {s \in sites : s.id = req[q].serial}

\* a status that is neither success nor 'already exists'
HardFailure(st) ==
    st # 0 /\ ~is_success(st) /\ st # HTTP_422_UNPROCESSABLE_ENTITY

\* C1: a registration whose webhook was created and whose deploy-key creation
\* then failed with a status other than 'already exists' ends with the
\* webhook deleted and the placeholder record removed.
C1_CompensatedAfterDeployKeyFailure ==
    \A q \in Slots :
        ( /\ Done(q) /\ IsRegistration(q)
          /\ req[q].webhook_response = HTTP_201_CREATED
          /\ HardFailure(req[q].deploy_key_response) )
        => /\ req[q].pk \notin hooks
           /\ SiteOf(q) = {}

\* C2: a registration whose webhook creation failed with a status that is
\* neither success nor 'already exists' ends with the placeholder record
\* deleted and answers the webhook error.
C2_PlaceholderRemovedAfterWebhookFailure ==
    \A q \in Slots :
        ( /\ Done(q) /\ IsRegistration(q)
          /\ HardFailure(req[q].webhook_response) )
        => /\ SiteOf(q) = {}
           /\ req[q].resp = req[q].webhook_response

\* the external calls of request q were answered without a hard failure, its
\* data was well formed, its config was read and the gate let it through
Unhindered(q) ==
    /\ req[q].data_ok
    /\ req[q].resp # HTTP_403_FORBIDDEN
    /\ req[q].raised # "YAMLError"
    /\ ~HardFailure(req[q].webhook_response)
    /\ ~HardFailure(req[q].deploy_key_response)

Committed(q) == req[q].resp = HTTP_201_CREATED

\* the duplicate-registration outcome: the Conflict answer, not an exception
Conflict(q) ==
    /\ req[q].resp = HTTP_422_UNPROCESSABLE_ENTITY
    /\ req[q].raised = "none"
    /\ req[q].webhook_response = 0
    /\ req[q].deploy_key_response = 0

\* C3: of two registrations of the same github id that ran concurrently, on a
\* registry with no record of it (they are the first two requests) and with
\* nothing else stopping them, exactly one commits; the other ends with the
\* Conflict error, having made no webhook or deploy-key call.
C3_OneCommitsOtherConflicts ==
    \A q1 \in Slots, q2 \in Slots :
        ( /\ q1 # q2
          /\ Done(q1) /\ Done(q2)
          /\ IsRegistration(q1) /\ IsRegistration(q2)
          /\ req[q1].pk = req[q2].pk
          /\ req[q1].serial \in req[q2].overlapped
          /\ {req[q1].serial, req[q2].serial} = {1, 2}
          /\ Unhindered(q1) /\ Unhindered(q2) )
        => \/ Committed(q1) /\ Conflict(q2)
           \/ Committed(q2) /\ Conflict(q1)

C5_AlreadyExistsIsAccepted ==
    \A q \in Slots :
        (Done(q) /\ IsRegistration(q))
        => /\ req[q].webhook_response = HTTP_422_UNPROCESSABLE_ENTITY
                => req[q].deploy_key_response # 0
           /\ ( /\ req[q].deploy_key_response = HTTP_422_UNPROCESSABLE_ENTITY
                /\ ~HardFailure(req[q].webhook_response) )
                => req[q].resp = HTTP_201_CREATED

\* C6: a registration that the access gate denies answers 403 with nothing
\* changed: no record of the request in the table, no webhook call and no
\* deploy-key call made.
C6_DeniedRegistrationLeavesNothing ==
    \A q \in Slots :
        ( /\ Done(q) /\ IsRegistration(q)
          /\ req[q].resp = HTTP_403_FORBIDDEN )
        => /\ SiteOf(q) = {}
           /\ req[q].webhook_response = 0
           /\ req[q].deploy_key_response = 0

\* C7: the record of a registration that answered 201 has a non-empty
\* webhook id and a non-empty deploy key id.
C7_CommittedRecordHasIds ==
    \A q \in Slots :
        (Done(q) /\ IsRegistration(q) /\ req[q].resp = HTTP_201_CREATED)
        => \A s \in SiteOf(q) : s.webhook_id # "" /\ s.deploy_key_id # ""

\* C8: every record of the table has the path base path + "/" + repo name,
\* whatever path the request data carried.
C8_PathIsDerived ==
    \A s \in sites : s.path = BASE_PROJECT_PATH \o "/" \o s.repo_name

\* C8, its case: a record is in the table whose request gave another path.
C8_Witness ==
    \E q \in Slots :
        /\ IsRegistration(q)
        /\ req[q].data_path # ""
        /\ \E s \in SiteOf(q) : s.path # req[q].data_path

\* C9: a record leaves the table only when neither the webhook nor the
\* deploy key of its repository exists any more.
C9_RecordRemovedAfterExternals ==
    [][ \A s \in sites :
          (\A t \in sites' : t.id # s.id)
          => s.github_id \notin hooks' /\ s.github_id \notin keys' ]_vars

IsHook(q) == req[q].view = "deploy_hook"

\* C11: deregistration is a one-way latch. Once a deregistration has taken its
\* first step on a record (site.delete(), the step that takes the record out
\* of the lookup), no webhook event received afterwards invokes the Build
\* Trigger for that record.
C11_NoBuildAfterRecordRemoved ==
    \A h \in Slots :
        (IsHook(h) /\ req[h].builds > 0)
        => \A x \in deregistered :
              x.site = req[h].site => req[h].serial <= x.at

\* C11, its case: a well-formed event for a repository was received after the
\* record of the repository had been removed, and was handled to its end.
C11_Witness ==
    \E h \in Slots :
        /\ IsHook(h) /\ Done(h) /\ req[h].looked_up /\ req[h].buildable
        /\ \E x \in deregistered : x.pk = req[h].pk /\ x.at < req[h].serial

\* a delivery without a valid authenticity marker, without the event type
\* header, or of type push or create with a payload that does not parse
Rejected(h) ==
    \/ req[h].auth # "valid"
    \/ req[h].event_type = "none"
    \/ req[h].event_type \in {"push", "create"} /\ ~req[h].payload_ok

\* C12: an unauthenticated or malformed delivery reaches neither the lookup
\* of the registry nor the Build Trigger.
C12_RejectedDeliveryReachesNothing ==
    \A h \in Slots :
        (IsHook(h) /\ Rejected(h))
        => /\ ~req[h].looked_up
           /\ req[h].site = 0
           /\ req[h].builds = 0
           /\ Done(h) /\ ~is_success(req[h].resp)

\* C12, its case: an unauthenticated delivery and a push with a payload that
\* does not parse have both been answered, while the repository is registered.
C12_Witness ==
    \E h1 \in Slots, h2 \in Slots :
        /\ IsHook(h1) /\ Done(h1) /\ req[h1].auth # "valid"
        /\ IsHook(h2) /\ Done(h2) /\ req[h2].auth = "valid"
        /\ req[h2].event_type = "push" /\ ~req[h2].payload_ok
        /\ \E s \in sites : s.github_id = req[h2].pk

\* C13: a well-formed, authenticated push or create event whose repository
\* has no active record is answered with a success status and builds nothing.
C13_NotOursIsSuccess ==
    \A h \in Slots :
        (IsHook(h) /\ Done(h) /\ req[h].looked_up /\ req[h].site = 0)
        => /\ is_success(req[h].resp)
           /\ req[h].builds = 0

\* C14: an (authenticated) ping event is answered with a success status
\* without a lookup or a build, whatever the registry holds and whether or not
\* its payload parses.
C14_PingNeverBuilds ==
    \A h \in Slots :
        (IsHook(h) /\ req[h].auth = "valid" /\ req[h].event_type = "ping")
        => /\ Done(h)
           /\ req[h].resp = HTTP_204_NO_CONTENT
           /\ req[h].builds = 0
           /\ ~req[h].looked_up

\* C14, its case: a ping for a registered repository, with a payload that
\* does not parse, has been answered.
C14_Witness ==
    \E h \in Slots :
        /\ IsHook(h) /\ Done(h)
        /\ req[h].auth = "valid" /\ req[h].event_type = "ping"
        /\ ~req[h].payload_ok
        /\ \E s \in sites : s.github_id = req[h].pk

\* the event of request h matched a record and is one the site deploys
MatchedBuildable(h) ==
    IsHook(h) /\ Done(h) /\ req[h].site # 0 /\ req[h].buildable

\* C15 as stated: every matched, buildable push or create event invokes the
\* Build Trigger exactly once and is answered 'accepted' (201); no event
\* invokes it more than once.
C15_BuildableIsBuiltOnce ==
    \A h \in Slots :
        /\ req[h].builds <= 1
        /\ MatchedBuildable(h)
              => req[h].builds = 1 /\ req[h].resp = HTTP_201_CREATED

\* C15 as amended: every matched, buildable push or create event handled
\* where ENV is not 'test' invokes the Build Trigger exactly once and is
\* answered 'accepted' (201); no event invokes it more than once.
C15_BuildableIsBuiltOnceOutsideTest ==
    \A h \in Slots :
        /\ req[h].builds <= 1
        /\ (MatchedBuildable(h) /\ req[h].ENV # "test")
              => req[h].builds = 1 /\ req[h].resp = HTTP_201_CREATED

\* C15, its case: a matched, buildable event was handled with ENV not 'test'.
C15_Witness ==
    \E h \in Slots :
        MatchedBuildable(h) /\ req[h].ENV = "production" /\ req[h].builds = 1

\* the outcome of a handled push or create event
Outcome(h) ==
    CASE ~(IsHook(h) /\ Done(h) /\ req[h].looked_up) -> "none"
      [] req[h].site = 0 -> "not ours"
      [] ~req[h].buildable -> "not buildable"
      [] req[h].builds > 0 -> "accepted"
      [] OTHER -> "none"

\* C16: a matched event that is not buildable is answered with a success
\* status and no build, and two events with different outcomes among 'not
\* ours', 'not buildable' and 'accepted' are answered with different statuses.
C16_OutcomesAreDistinct ==
    /\ \A h \in Slots :
          Outcome(h) = "not buildable"
          => is_success(req[h].resp) /\ req[h].builds = 0
    /\ \A h1 \in Slots, h2 \in Slots :
          ( /\ Outcome(h1) # "none" /\ Outcome(h2) # "none"
            /\ Outcome(h1) # Outcome(h2) )
          => req[h1].resp # req[h2].resp

\* C16, its case: a not buildable event and an accepted one have both been
\* answered.
C16_Witness ==
    \E h1 \in Slots, h2 \in Slots :
        Outcome(h1) = "not buildable" /\ Outcome(h2) = "accepted"

\* C17: what get_franklin_config ends with (a config, a non-success
\* response, a failure) never changes the registration: the step leaves the
\* registry and the platform as they are and the request goes on to the
\* webhook creation.
C17_ConfigNeverChangesOutcome ==
    [][ \A q \in Slots :
          (req[q].pc = "config" /\ req'[q] # req[q])
          => /\ req'[q] = [req[q] EXCEPT !.pc = "webhook"]
             /\ UNCHANGED <<sites, hooks, keys, links>> ]_vars

\* C18: listing the sites of a user whose empty link set is refreshed from
\* an empty GitHub repository list completes normally: no exception.
C18_RefreshNeverRaises ==
    \A q \in Slots :
        ( /\ Done(q)
          /\ req[q].view = "repository_list" /\ req[q].method = "GET" )
        => req[q].raised = "none"

RECURSIVE AllRepos(_, _)
\* the repos of the pages from page i on, in page order
AllRepos(pages, i) ==
    IF i > Len(pages) THEN <<>> ELSE pages[i].repos \o AllRepos(pages, i + 1)

\* C19: for every finite chain of pages get_user_repos ends having made one
\* GET per page and returns the repos of all pages in page order.
C19_OneRequestPerPageAllReturned ==
    pager.pc = "done"
    => /\ pager.calls = Len(pager.pages)
       /\ pager.raised = "none"
       /\ pager.returned = AllRepos(pager.pages, 1)

\* The same for the chains that list at least one repository (holds).
C19_ChainsWithRepos ==
    (pager.pc = "done" /\ AllRepos(pager.pages, 1) # <<>>)
    => /\ pager.calls = Len(pager.pages)
       /\ pager.raised = "none"
       /\ pager.returned = AllRepos(pager.pages, 1)

\* C20: a registration whose data fails validation answers 400, without an
\* unhandled error, a record written or an external call made.
C20_InvalidDataIsBadRequest ==
    \A q \in Slots :
        (Done(q) /\ IsRegistration(q) /\ ~req[q].data_ok)
        => /\ req[q].resp = HTTP_400_BAD_REQUEST
           /\ req[q].raised = "none"
           /\ SiteOf(q) = {}
           /\ req[q].webhook_response = 0
           /\ req[q].deploy_key_response = 0

\* slot q serves the same request before and after the step
SameRequest(q) == req'[q].serial = req[q].serial

\* request q comes to the step `pc` in this step
Enters(q, pc) == req[q].pc # pc /\ req'[q].pc = pc

\* C21: within a registration the external mutations come after validation.
\* create-webhook is called (and the webhook set changes) only by a request
\* at its webhook step, which is reached only through the config step from an
\* access check that passed on well-formed data; create-deploy-key is called
\* only by a request at its deploy-key step, which is reached only from a
\* create-webhook call of the same request that was answered with success.
C21_ExternalCallsAreOrdered ==
    [][ /\ \A q \in Slots :
              (IsRegistration(q) /\ SameRequest(q))
              => /\ req'[q].webhook_response # req[q].webhook_response
                      => req[q].pc = "webhook"
                 /\ Enters(q, "webhook") => req[q].pc = "config"
                 /\ Enters(q, "config")
                      => /\ req[q].pc = "access"
                         /\ req[q].data_ok
                         /\ has_repo_access(req[q].user, req[q].site).allowed
                 /\ req'[q].deploy_key_response # req[q].deploy_key_response
                      => req[q].pc = "deploy_key"
                 /\ Enters(q, "deploy_key")
                      => /\ req[q].pc = "webhook"
                         /\ req'[q].webhook_response = HTTP_201_CREATED
        /\ hooks' # hooks
              => \E q \in Slots : IsRegistration(q) /\ req[q].pc = "webhook"
        /\ keys' # keys
              => \E q \in Slots : IsRegistration(q) /\ req[q].pc = "deploy_key"
      ]_vars

\* C21, its case: one registration has made both external calls, and another
\* was denied by the access check and has made none.
C21_Witness ==
    \E q1 \in Slots, q2 \in Slots :
        /\ IsRegistration(q1) /\ Done(q1) /\ req[q1].deploy_key_response # 0
        /\ IsRegistration(q2) /\ Done(q2)
        /\ req[q2].resp = HTTP_403_FORBIDDEN /\ req[q2].webhook_response = 0

\* C22: the webhook receiver answers 201 exactly when the build was invoked
\* in the request, and a matched, buildable event handled with ENV equal to
\* 'test' invokes no build and is not answered 201.
C22_CreatedIffBuiltAndNeverInTest ==
    \A h \in Slots :
        (IsHook(h) /\ Done(h))
        => /\ req[h].resp = HTTP_201_CREATED <=> req[h].builds > 0
           /\ (MatchedBuildable(h) /\ req[h].ENV = "test")
                 => req[h].builds = 0 /\ req[h].resp # HTTP_201_CREATED

IsDetail(q) == req[q].view = "repository_detail"

\* C23: a step of a repository_detail request removes a record only when it
\* is the last step of a DELETE, which is reached only from an access check
\* that passed, and then it removes the record of the request and no other;
\* every other step of the view (GET, the 404 and the 403 among them) leaves
\* the table of records as it was.
C23_OnlyAllowedDeleteRemoves ==
    [][ \A q \in Slots :
          (IsDetail(q) /\ SameRequest(q) /\ req'[q] # req[q])
          => /\ IF req[q].pc = "detail_method" /\ req[q].method = "DELETE"
                THEN /\ sites' = {s \in sites : s.id # req[q].site}
                     /\ req'[q].resp = HTTP_204_NO_CONTENT
                ELSE sites' = sites
             /\ Enters(q, "detail_method")
                  => /\ req[q].pc = "detail_access"
                     /\ has_repo_access(req[q].user, req[q].site).allowed
             /\ req'[q].resp \in {HTTP_404_NOT_FOUND, HTTP_403_FORBIDDEN,
                                  HTTP_200_OK}
                  => sites' = sites ]_vars

\* C23, its case: a DELETE has removed its record, and a request by a user
\* without access was answered 403.
C23_Witness ==
    \E q1 \in Slots, q2 \in Slots :
        /\ IsDetail(q1) /\ Done(q1) /\ req[q1].method = "DELETE"
        /\ req[q1].resp = HTTP_204_NO_CONTENT
        /\ \E x \in deregistered : x.site = req[q1].site
        /\ IsDetail(q2) /\ Done(q2) /\ req[q2].resp = HTTP_403_FORBIDDEN

TypeOK ==
    /\ hooks \subseteq Repos
    /\ keys \subseteq Repos
    /\ started \in 0..MaxRequests
    /\ \A s \in sites : s.github_id \in Repos /\ s.id \in 1..MaxRequests
    /\ \A x \in deregistered : x.pk \in Repos /\ x.at \in 1..MaxRequests
    /\ pager.pc \in {"idle", "loop", "done"}
    /\ pager.calls \in 0..MaxPages

====
